---- MODULE Spec2Model ----
(***************************************************************************)
(* Model of TokenRouterProgram (solana/ts/src/tokenRouter/index.ts): the   *)
(* client-side composer of token-router instructions.                      *)
(*                                                                         *)
(* Every value is a tuple whose first element is a string tag, so that any *)
(* two values can be compared: <<"undefined">>, <<"null">>, <<"key", k>>,  *)
(* <<"pda", program, seeds>>, <<"ix", name, accounts, data>>, ...          *)
(*                                                                         *)
(* An async method suspends at each ledger read it awaits; the model has   *)
(* one action for the call (up to its first await or its return) and one   *)
(* action per awaited read (from the read's answer up to the next await or *)
(* the return).  The answer of a read is chosen by the environment.        *)
(***************************************************************************)
EXTENDS Integers, Sequences, FiniteSets, TLC

VARIABLES
    programId,  \* TokenRouterProgram._programId, set by the constructor
    op,         \* the method being executed, "none" when idle
    pc,         \* "idle", the read being awaited, or "done"
    acc,        \* the `accounts` argument of the call
    args,       \* the `args` argument of the call
    loc,        \* the method's local variables
    reads,      \* the ledger reads issued by the call so far, in order
    result,     \* what the call's promise settled with
    calls,      \* number of calls started (bounds the run)
    resolved    \* what the network switches returned so far: <<method, outcome>>

vars == <<programId, op, pc, acc, args, loc, reads, result, calls, resolved>>

-----------------------------------------------------------------------------
(* Bounds of the model *)

\* number of method calls in one run
MaxCalls == 2
\* longest redeemerMessage drawn for the digest
MaxMsgLen == 8

-----------------------------------------------------------------------------
(* Values *)

Undefined == <<"undefined">>
Null == <<"null">>
Key(k) == <<"key", k>>
Bool(b) == <<"bool", b>>
Some(n) == <<"some", n>>
Throw(msg) == <<"throw", msg>>
IsThrow(v) == v[1] = "throw"

\* x ?? y
Nullish(x, y) == IF x = Undefined \/ x = Null THEN y ELSE x

-----------------------------------------------------------------------------
(* Program identities and the network switches *)

Localnet == "TokenRouter11111111111111111111111111111111"
Testnet == "tD8RmtdcV7bzBeuFgyrFc8wvayj988ChccEzRQzo6md"
PROGRAM_IDS == {Localnet, Testnet}
\* an identity outside PROGRAM_IDS, as an untyped caller can pass
ForeignId == "SomeOtherProgram1111111111111111111111111111"
ProgramIds == PROGRAM_IDS \cup {ForeignId}

UnsupportedNetwork == "unsupported network"

upgradeManagerProgram(id) ==
    CASE id = Testnet -> <<"program", "ucdP9ktgrXgEUnn6roqD2SfdGMR2JSiWHUKv23oXwxt">>
      [] id = Localnet -> <<"program", "UpgradeManager11111111111111111111111111111">>
      [] OTHER -> Throw(UnsupportedNetwork)

matchingEngineProgram(id) ==
    CASE id = Testnet -> <<"program", "matchingEngineSdk.testnet()">>
      [] id = Localnet -> <<"program", "matchingEngineSdk.localnet()">>
      [] OTHER -> Throw(UnsupportedNetwork)

\* mutant: an unknown identity falls back to the local network
coreBridgeProgramId_FallsBack(id) ==
    CASE id = Testnet -> <<"program", "3u8hJUVTA4jH1wYAyUur7FFZVQ8H635K3tSHHF4ssjQ5">>
      [] OTHER -> <<"program", "worm2ZoG2kUd4vFXhvjh93UUH596ayRfgQ2MgjNMTth">>

coreBridgeProgramId(id) ==
    CASE id = Testnet -> <<"program", "3u8hJUVTA4jH1wYAyUur7FFZVQ8H635K3tSHHF4ssjQ5">>
      [] id = Localnet -> <<"program", "worm2ZoG2kUd4vFXhvjh93UUH596ayRfgQ2MgjNMTth">>
      [] OTHER -> Throw(UnsupportedNetwork)

tokenMessengerMinterProgram == <<"program", "CCTPiPYPc6AsJuwueEnWgSgucamXDZwBd53dQ11YiKX3">>
messageTransmitterProgram == <<"program", "CCTPmbSD7gX1bxKPAmg77w8oFzNFpaQiQUWD43TKaecd">>

-----------------------------------------------------------------------------
(* Address derivation.  findProgramAddressSync is taken as an injective    *)
(* function of (seeds, program): the address is the pair itself.           *)

Pda(seeds, program) == <<"pda", program, seeds>>
ID(id) == <<"program", id>>
Mint == Key("mint")

custodianAddress(id) == Pda(<<"custodian">>, ID(id))
preparedCustodyTokenAddress(id, prepared) == Pda(<<"prepared-custody", prepared>>, ID(id))
coreMessageAddress(id, preparedOrder) == Pda(<<"core-msg", preparedOrder>>, ID(id))
cctpMessageAddress(id, preparedOrder) == Pda(<<"cctp-msg", preparedOrder>>, ID(id))
preparedFillAddress(id, fillSource) == Pda(<<"fill", fillSource>>, ID(id))
cctpMintRecipientAddress(id) == <<"ata", Mint, custodianAddress(id)>>
routerEndpointAddress(me, chain) == Pda(<<"endpoint", chain>>, me)

-----------------------------------------------------------------------------
(* The transfer authority: keccak256 over the concatenation of the buffers *)
(* given to hasher.update, then a program-derived address.  The digest is  *)
(* taken as an injective function of the bytes hashed.                     *)

U64Len == 8
U16Len == 2
RedeemerLen == 32

RECURSIVE ToBufferBE(_, _)
\* the w low-order base-256 digits of n, most significant first
ToBufferBE(n, w) ==
    IF w = 0 THEN <<>> ELSE Append(ToBufferBE(n \div 256, w - 1), n % 256)

\* mutant: an absent minAmountOut is hashed as a zero placeholder
DigestInput_Placeholder(a) ==
    ToBufferBE(a.amountIn, U64Len)
        \o (IF a.minAmountOut # Null
            THEN ToBufferBE(a.minAmountOut[2], U64Len)
            ELSE ToBufferBE(0, U64Len))
        \o ToBufferBE(a.targetChain, U16Len)
        \o a.redeemer
        \o a.redeemerMessage

\* args: [amountIn, minAmountOut, targetChain, redeemer, redeemerMessage]
DigestInput(a) ==
    ToBufferBE(a.amountIn, U64Len)
        \o (IF a.minAmountOut # Null THEN ToBufferBE(a.minAmountOut[2], U64Len) ELSE <<>>)
        \o ToBufferBE(a.targetChain, U16Len)
        \o a.redeemer
        \o a.redeemerMessage

Keccak256(bytes) == <<"keccak256", bytes>>

transferAuthorityAddress(id, preparedOrder, a) ==
    Pda(<<"transfer-authority", preparedOrder, Keccak256(DigestInput(a))>>, ID(id))

-----------------------------------------------------------------------------
(* Instructions, results, the state of one call *)

Ix(name, accounts, data) == <<"ix", name, accounts, data>>
IsIx(v) == v[1] = "ix"
Ok(value) == <<"ok", value>>
Error(msg) == <<"error", msg>>
Pending == <<"pending">>

\* a ledger read: which fetch, at which address, and what it settled with
Read(kind, address) == [kind |-> kind, address |-> address, answer |-> Pending]

\* the read awaited (the last one issued) settles with `answer`
Answered(rs, answer) == [rs EXCEPT ![Len(rs)].answer = answer]

\* errors a ledger read may reject with
ReadErrors == {"account does not exist", "failed to get info about account"}

NoLoc == [none |-> Null]

Idle ==
    /\ op = "none"
    /\ pc = "idle"
    /\ calls < MaxCalls

\* the call has settled: with a value, or with the error thrown
Settle(r) ==
    /\ pc' = "done"
    /\ result' = r

-----------------------------------------------------------------------------
(* prepareMarketOrderIx and approveTransferAuthorityIx *)

Payer == Key("payer")
PreparedOrderKey == Key("preparedOrder")
SenderToken == Key("senderToken")

OrderArgs ==
    [amountIn : {1, 258},
     minAmountOut : {Null, Some(100)},
     targetChain : {2},
     redeemer : {[i \in 1..RedeemerLen |-> 7]},
     redeemerMessage : {<<>>, <<1, 2>>}]

PrepareAccounts ==
    [payer : {Payer},
     preparedOrder : {PreparedOrderKey},
     senderToken : {SenderToken},
     senderTokenAuthority : {Undefined, Key("senderTokenAuthority")},
     refundToken : {Undefined, Key("refundToken")},
     programTransferAuthority : {Undefined, Null, Key("programTransferAuthority")},
     sender : {Undefined, Null, Key("sender")}]

UseTransferAuthority == {Undefined, Bool(TRUE), Bool(FALSE)}

\* lines 341-351: the part of approveTransferAuthorityIx after the owner is known
approveTransferAuthorityResult(id, preparedOrder, senderToken, senderTokenAuthority, a) ==
    LET transferAuthority == transferAuthorityAddress(id, preparedOrder, a)
    IN  [transferAuthority |-> transferAuthority,
         ix |-> Ix("approve",
                   [source |-> senderToken,
                    delegate |-> transferAuthority,
                    owner |-> senderTokenAuthority],
                   [amount |-> a.amountIn])]

\* lines 393-415: build the prepare instruction and return the pair
prepareMarketOrderReturn(id, a, g, l) ==
    Ok(<<l.approveIx,
         Ix("prepareMarketOrder",
            [payer |-> a.payer,
             custodian |-> custodianAddress(id),
             programTransferAuthority |-> l.programTransferAuthority,
             sender |-> l.sender,
             preparedOrder |-> a.preparedOrder,
             senderToken |-> a.senderToken,
             refundToken |-> l.refundToken,
             preparedCustodyToken |-> preparedCustodyTokenAddress(id, a.preparedOrder),
             usdc |-> Mint,
             tokenProgram |-> Key("TOKEN_PROGRAM_ID"),
             systemProgram |-> Key("SystemProgram")],
            g)>>)

\* mutant: a supplied programTransferAuthority is not consulted
prepareApproves_IgnoresSupplied(programTransferAuthority, useTransferAuthority) ==
    useTransferAuthority = Bool(TRUE)

\* mutant: useTransferAuthority is not consulted
prepareApproves_IgnoresFlag(programTransferAuthority, useTransferAuthority) ==
    programTransferAuthority = Undefined

\* lines 380-381: the approve path is taken
prepareApproves(programTransferAuthority, useTransferAuthority) ==
    /\ programTransferAuthority = Undefined
    /\ useTransferAuthority = Bool(TRUE)

\* lines 386-387: the approve result is stored in the locals
prepareWithApprove(id, a, g, l, owner) ==
    LET approveResult ==
            approveTransferAuthorityResult(id, a.preparedOrder, a.senderToken, owner, g)
    IN  [l EXCEPT !.programTransferAuthority = approveResult.transferAuthority,
                  !.approveIx = approveResult.ix]

\* mutant: a sender left unset stays undefined
prepareLocals_KeepsUndefinedSender(a, u) ==
    [refundToken |-> Nullish(a.refundToken, a.senderToken),
     useTransferAuthority |-> Nullish(u, Bool(TRUE)),
     approveIx |-> Null,
     sender |-> a.sender,
     programTransferAuthority |-> a.programTransferAuthority]

\* mutant: useTransferAuthority defaults to false
prepareLocals_DefaultOff(a, u) ==
    [refundToken |-> Nullish(a.refundToken, a.senderToken),
     useTransferAuthority |-> Nullish(u, Bool(FALSE)),
     approveIx |-> Null,
     sender |-> IF a.sender = Undefined THEN Null ELSE a.sender,
     programTransferAuthority |-> a.programTransferAuthority]

\* lines 366-378: the locals after the defaults
prepareLocals(a, u) ==
    [refundToken |-> Nullish(a.refundToken, a.senderToken),
     useTransferAuthority |-> Nullish(u, Bool(TRUE)),
     approveIx |-> Null,
     sender |-> IF a.sender = Undefined THEN Null ELSE a.sender,
     programTransferAuthority |-> a.programTransferAuthority]

PrepareMarketOrderIx ==
    /\ Idle
    /\ \E a \in PrepareAccounts, g \in OrderArgs, u \in UseTransferAuthority :
        LET l == prepareLocals(a, u) IN
        /\ op' = "prepareMarketOrder"
        /\ acc' = a
        /\ args' = [order |-> g, useTransferAuthority |-> u]
        /\ calls' = calls + 1
        /\ IF prepareApproves(l.programTransferAuthority, l.useTransferAuthority)
           THEN IF Nullish(a.senderTokenAuthority, Undefined) = Undefined
                THEN \* await splToken.getAccount(connection, senderToken)
                     /\ pc' = "getAccount"
                     /\ loc' = l
                     /\ reads' = <<Read("getAccount", a.senderToken)>>
                     /\ result' = Pending
                ELSE LET l2 == prepareWithApprove(programId, a, g, l, a.senderTokenAuthority)
                     IN  /\ loc' = l2
                         /\ reads' = <<>>
                         /\ Settle(prepareMarketOrderReturn(programId, a, g, l2))
           ELSE LET l2 == IF l.programTransferAuthority = Undefined
                          THEN [l EXCEPT !.programTransferAuthority = Null]
                          ELSE l
                IN  /\ loc' = l2
                    /\ reads' = <<>>
                    /\ Settle(prepareMarketOrderReturn(programId, a, g, l2))
    /\ UNCHANGED <<programId, resolved>>

\* mutant: a rejected token-account read is issued again
GetAccountReturns_Retries ==
    /\ op = "prepareMarketOrder"
    /\ pc = "getAccount"
    /\ \/ \E owner \in {Key("tokenAccount.owner")} :
            LET l2 == prepareWithApprove(programId, acc, args.order, loc, owner)
            IN  /\ loc' = l2
                /\ reads' = Answered(reads, Ok(owner))
                /\ Settle(prepareMarketOrderReturn(programId, acc, args.order, l2))
       \/ \E e \in ReadErrors :
            /\ Len(reads) < 2
            /\ loc' = loc
            /\ reads' = Append(Answered(reads, Error(e)),
                               Read("getAccount", acc.senderToken))
            /\ UNCHANGED <<pc, result>>
       \/ \E e \in ReadErrors :
            /\ Len(reads) >= 2
            /\ loc' = loc
            /\ reads' = Answered(reads, Error(e))
            /\ Settle(Error(e))
    /\ UNCHANGED <<programId, op, acc, args, calls, resolved>>

\* splToken.getAccount settles: with the token account, or with an error
GetAccountReturns ==
    /\ op = "prepareMarketOrder"
    /\ pc = "getAccount"
    /\ \/ \E owner \in {Key("tokenAccount.owner")} :
            LET l2 == prepareWithApprove(programId, acc, args.order, loc, owner)
            IN  /\ loc' = l2
                /\ reads' = Answered(reads, Ok(owner))
                /\ Settle(prepareMarketOrderReturn(programId, acc, args.order, l2))
       \/ \E e \in ReadErrors :
            /\ loc' = loc
            /\ reads' = Answered(reads, Error(e))
            /\ Settle(Error(e))
    /\ UNCHANGED <<programId, op, acc, args, calls, resolved>>

-----------------------------------------------------------------------------
(* The prepared order on the ledger, as fetchPreparedOrder decodes it *)

\* isChainId of @wormhole-foundation/sdk-base, on the chain ids drawn here
KnownChainIds == {2, 6}
isChainId(c) == c \in KnownChainIds

\* chain ids a stored order may hold: two recognised ones and one that is not
StoredChains == KnownChainIds \cup {65000}

PreparedOrderInfos ==
    [preparedBy : {Key("info.preparedBy")},
     orderSender : {Key("info.orderSender")},
     refundToken : {Key("info.refundToken")},
     targetChain : StoredChains]

-----------------------------------------------------------------------------
(* closePreparedOrderIx *)

CloseAccounts ==
    [preparedOrder : {PreparedOrderKey},
     preparedBy : {Undefined, Key("preparedBy")},
     orderSender : {Undefined, Key("orderSender")},
     refundToken : {Undefined, Key("refundToken")}]

\* line 427
closeFetches(preparedBy, orderSender, refundToken) ==
    preparedBy = Undefined \/ orderSender = Undefined \/ refundToken = Undefined

\* mutant: the record read overwrites what the caller supplied
closeFallback_Overwrites(l, info) ==
    [preparedBy |-> info.preparedBy,
     orderSender |-> info.orderSender,
     refundToken |-> info.refundToken]

\* lines 430-432
closeFallback(l, info) ==
    [preparedBy |-> Nullish(l.preparedBy, info.preparedBy),
     orderSender |-> Nullish(l.orderSender, info.orderSender),
     refundToken |-> Nullish(l.refundToken, info.refundToken)]

\* lines 435-446
closePreparedOrderReturn(id, a, l) ==
    Ok(Ix("closePreparedOrder",
          [preparedBy |-> l.preparedBy,
           custodian |-> custodianAddress(id),
           orderSender |-> l.orderSender,
           preparedOrder |-> a.preparedOrder,
           refundToken |-> l.refundToken,
           preparedCustodyToken |-> preparedCustodyTokenAddress(id, a.preparedOrder),
           tokenProgram |-> Key("TOKEN_PROGRAM_ID")],
          Null))

ClosePreparedOrderIx ==
    /\ Idle
    /\ \E a \in CloseAccounts :
        LET l == [preparedBy |-> a.preparedBy,
                  orderSender |-> a.orderSender,
                  refundToken |-> a.refundToken]
        IN
        /\ op' = "closePreparedOrder"
        /\ acc' = a
        /\ args' = Null
        /\ calls' = calls + 1
        /\ loc' = l
        /\ IF closeFetches(l.preparedBy, l.orderSender, l.refundToken)
           THEN \* await this.fetchPreparedOrder(preparedOrder)
                /\ pc' = "fetchPreparedOrder"
                /\ reads' = <<Read("fetchPreparedOrder", a.preparedOrder)>>
                /\ result' = Pending
           ELSE /\ reads' = <<>>
                /\ Settle(closePreparedOrderReturn(programId, a, l))
    /\ UNCHANGED <<programId, resolved>>

CloseFetchPreparedOrderReturns ==
    /\ op = "closePreparedOrder"
    /\ pc = "fetchPreparedOrder"
    /\ \/ \E info \in PreparedOrderInfos :
            LET l2 == closeFallback(loc, info)
            IN  /\ loc' = l2
                /\ reads' = Answered(reads, Ok(info))
                /\ Settle(closePreparedOrderReturn(programId, acc, l2))
       \/ \E e \in ReadErrors :
            /\ loc' = loc
            /\ reads' = Answered(reads, Error(e))
            /\ Settle(Error(e))
    /\ UNCHANGED <<programId, op, acc, args, calls, resolved>>

-----------------------------------------------------------------------------
(* consumePreparedFillIx: no read, no default *)

ConsumeAccounts ==
    [preparedFill : {Key("preparedFill")},
     redeemer : {Key("redeemer")},
     dstToken : {Key("dstToken"), Key("dstToken2")},
     beneficiary : {Key("beneficiary")}]

consumePreparedFillReturn(id, a) ==
    Ok(Ix("consumePreparedFill",
          [redeemer |-> a.redeemer,
           beneficiary |-> a.beneficiary,
           preparedFill |-> a.preparedFill,
           dstToken |-> a.dstToken,
           preparedCustodyToken |-> preparedCustodyTokenAddress(id, a.preparedFill),
           tokenProgram |-> Key("TOKEN_PROGRAM_ID")],
          Null))

ConsumePreparedFillIx ==
    /\ Idle
    /\ \E a \in ConsumeAccounts :
        /\ op' = "consumePreparedFill"
        /\ acc' = a
        /\ args' = Null
        /\ calls' = calls + 1
        /\ loc' = NoLoc
        /\ reads' = <<>>
        /\ Settle(consumePreparedFillReturn(programId, a))
    /\ UNCHANGED <<programId, resolved>>

-----------------------------------------------------------------------------
(* placeMarketOrderCctpIx *)

OrderNotFound == "Cannot find prepared order"
InvalidTargetChain == "Invalid chain found in prepared order"
InvalidRouterEndpoint == "invalid router endpoint"

PlaceAccounts ==
    [payer : {Payer},
     preparedOrder : {PreparedOrderKey},
     preparedBy : {Undefined, Key("preparedBy")},
     routerEndpoint : {Undefined, Key("routerEndpoint")}]

PlaceArgs ==
    [targetChain : {Undefined} \cup {Some(c) : c \in KnownChainIds},
     destinationDomain : {Undefined, Some(0), Some(5)}]

\* the protocol of a router endpoint: the cctp variant or another one
Protocols == {<<"cctp", 0>>, <<"cctp", 3>>, <<"local", Key("programId")>>, <<"none">>}
HasCctp(protocol) == protocol[1] = "cctp"

\* TokenMessengerMinterProgram.depositForBurnWithCallerAccounts(mint, domain)
depositForBurnWithCallerAccounts(mint, domain) ==
    [senderAuthority |-> Pda(<<"sender_authority">>, tokenMessengerMinterProgram),
     messageTransmitterConfig |-> Pda(<<"message_transmitter">>, messageTransmitterProgram),
     tokenMessenger |-> Pda(<<"token_messenger">>, tokenMessengerMinterProgram),
     remoteTokenMessenger |->
         Pda(<<"remote_token_messenger", domain>>, tokenMessengerMinterProgram),
     tokenMinter |-> Pda(<<"token_minter">>, tokenMessengerMinterProgram),
     localToken |-> Pda(<<"local_token", mint>>, tokenMessengerMinterProgram),
     tokenMessengerMinterEventAuthority |->
         Pda(<<"__event_authority">>, tokenMessengerMinterProgram),
     messageTransmitterProgram |-> messageTransmitterProgram,
     tokenMessengerMinterProgram |-> tokenMessengerMinterProgram]

\* lines 840-858, for a core bridge program already resolved
publishMessageAccounts(coreBridgeProgram, emitter) ==
    [coreBridgeConfig |-> Pda(<<"Bridge">>, coreBridgeProgram),
     coreEmitterSequence |-> Pda(<<"Sequence", emitter>>, coreBridgeProgram),
     coreFeeCollector |-> Pda(<<"fee_collector">>, coreBridgeProgram),
     coreBridgeProgram |-> coreBridgeProgram]

\* a step of a method: where it stands afterwards
Step(p, l, rs, r) == [pc |-> p, loc |-> l, reads |-> rs, result |-> r]

\* mutant: the burn accounts are composed on entry, from the caller's domain
placeLocals_EagerBurn(a, g) ==
    [preparedBy |-> a.preparedBy,
     routerEndpoint |-> a.routerEndpoint,
     targetChain |-> g.targetChain,
     destinationDomain |-> g.destinationDomain,
     burn |-> <<"accounts", depositForBurnWithCallerAccounts(Mint, g.destinationDomain)>>]

\* lines 482-484
placeLocals(a, g) ==
    [preparedBy |-> a.preparedBy,
     routerEndpoint |-> a.routerEndpoint,
     targetChain |-> g.targetChain,
     destinationDomain |-> g.destinationDomain,
     burn |-> Undefined]

\* mutant: the prepared order is read on every call
placeFetchesOrder_Always(preparedBy, targetChain) == TRUE

\* line 486
placeFetchesOrder(preparedBy, targetChain) ==
    preparedBy = Undefined \/ targetChain = Undefined

\* lines 515-564: compose the burn accounts and build the instruction
placeCompose(id, a, l, rs) ==
    LET burn == depositForBurnWithCallerAccounts(Mint, l.destinationDomain[2])
        custodian == custodianAddress(id)
        coreBridgeProgram == coreBridgeProgramId(id)
        l2 == [l EXCEPT !.burn = <<"accounts", burn>>]
    IN  IF IsThrow(coreBridgeProgram)
        THEN Step("done", l2, rs, Error(coreBridgeProgram[2]))
        ELSE LET pub == publishMessageAccounts(coreBridgeProgram, custodian) IN
             Step("done", l2, rs,
                  Ok(Ix("placeMarketOrderCctp",
                        [payer |-> a.payer,
                         preparedBy |-> l.preparedBy,
                         custodian |-> custodian,
                         preparedOrder |-> a.preparedOrder,
                         mint |-> Mint,
                         preparedCustodyToken |->
                             preparedCustodyTokenAddress(id, a.preparedOrder),
                         routerEndpoint |-> l.routerEndpoint,
                         coreBridgeConfig |-> pub.coreBridgeConfig,
                         coreMessage |-> coreMessageAddress(id, a.preparedOrder),
                         cctpMessage |-> cctpMessageAddress(id, a.preparedOrder),
                         coreEmitterSequence |-> pub.coreEmitterSequence,
                         coreFeeCollector |-> pub.coreFeeCollector,
                         tokenMessengerMinterSenderAuthority |-> burn.senderAuthority,
                         messageTransmitterConfig |-> burn.messageTransmitterConfig,
                         tokenMessenger |-> burn.tokenMessenger,
                         remoteTokenMessenger |-> burn.remoteTokenMessenger,
                         tokenMinter |-> burn.tokenMinter,
                         localToken |-> burn.localToken,
                         tokenMessengerMinterEventAuthority |->
                             burn.tokenMessengerMinterEventAuthority,
                         coreBridgeProgram |-> pub.coreBridgeProgram,
                         tokenMessengerMinterProgram |-> burn.tokenMessengerMinterProgram,
                         messageTransmitterProgram |-> burn.messageTransmitterProgram,
                         tokenProgram |-> Key("TOKEN_PROGRAM_ID"),
                         systemProgram |-> Key("SystemProgram"),
                         rent |-> Key("SYSVAR_RENT_PUBKEY"),
                         clock |-> Key("SYSVAR_CLOCK_PUBKEY")],
                        Null)))

\* mutant: the router endpoint is read on every call
placeFetchesEndpoint_Always(destinationDomain) == TRUE

\* line 505
placeFetchesEndpoint(destinationDomain) == destinationDomain = Undefined

\* lines 499-513, up to the await of fetchRouterEndpointInfo
placeAfterOrder(id, a, l, rs) ==
    LET matchingEngine == matchingEngineProgram(id) IN
    IF IsThrow(matchingEngine)
    THEN Step("done", l, rs, Error(matchingEngine[2]))
    ELSE LET l2 == [l EXCEPT !.routerEndpoint =
                        Nullish(@, routerEndpointAddress(matchingEngine, l.targetChain[2]))]
         IN  IF placeFetchesEndpoint(l2.destinationDomain)
             THEN Step("fetchRouterEndpointInfo", l2,
                       Append(rs, Read("fetchRouterEndpointInfo", l2.routerEndpoint)),
                       Pending)
             ELSE placeCompose(id, a, l2, rs)

\* mutant: the stored chain is checked only when it is going to be used
placeOrderFetched_ChecksIfUsed(l, info) ==
    LET l2 == [l EXCEPT !.preparedBy = Nullish(@, info.preparedBy)] IN
    IF l.targetChain = Undefined /\ ~isChainId(info.targetChain)
    THEN <<Throw(InvalidTargetChain), l2>>
    ELSE <<Null, [l2 EXCEPT !.targetChain = Nullish(@, Some(info.targetChain))]>>

\* lines 487-497: the prepared order has been fetched
placeOrderFetched(l, info) ==
    LET l2 == [l EXCEPT !.preparedBy = Nullish(@, info.preparedBy)] IN
    IF ~isChainId(info.targetChain)
    THEN <<Throw(InvalidTargetChain), l2>>
    ELSE <<Null, [l2 EXCEPT !.targetChain = Nullish(@, Some(info.targetChain))]>>

\* mutant: an endpoint of another variant yields domain 0
placeEndpointFetched_DefaultsDomain(l, protocol) ==
    IF ~HasCctp(protocol)
    THEN <<Null, [l EXCEPT !.destinationDomain = Some(0)]>>
    ELSE <<Null, [l EXCEPT !.destinationDomain = Some(protocol[2])]>>

\* lines 509-512: the router endpoint has been fetched
placeEndpointFetched(l, protocol) ==
    IF ~HasCctp(protocol)
    THEN <<Throw(InvalidRouterEndpoint), l>>
    ELSE <<Null, [l EXCEPT !.destinationDomain = Some(protocol[2])]>>

\* mutant: the read's own error is rethrown
placeOrderFetchFailed_Rethrows(e) == Error(e)

\* the error a failed fetchPreparedOrder surfaces as (lines 487-489)
placeOrderFetchFailed(e) == Error(OrderNotFound)

Goto(s) ==
    /\ pc' = s.pc
    /\ loc' = s.loc
    /\ reads' = s.reads
    /\ result' = s.result

PlaceMarketOrderCctpIx ==
    /\ Idle
    /\ \E a \in PlaceAccounts, g \in PlaceArgs :
        LET l == placeLocals(a, g) IN
        /\ op' = "placeMarketOrderCctp"
        /\ acc' = a
        /\ args' = g
        /\ calls' = calls + 1
        /\ IF placeFetchesOrder(l.preparedBy, l.targetChain)
           THEN \* await this.fetchPreparedOrder(preparedOrder)
                Goto(Step("fetchPreparedOrder", l,
                          <<Read("fetchPreparedOrder", a.preparedOrder)>>, Pending))
           ELSE Goto(placeAfterOrder(programId, a, l, <<>>))
    /\ UNCHANGED <<programId, resolved>>

PlaceFetchPreparedOrderReturns ==
    /\ op = "placeMarketOrderCctp"
    /\ pc = "fetchPreparedOrder"
    /\ \/ \E info \in PreparedOrderInfos :
            LET f == placeOrderFetched(loc, info) IN
            IF IsThrow(f[1])
            THEN Goto(Step("done", f[2], Answered(reads, Ok(info)), Error(f[1][2])))
            ELSE Goto(placeAfterOrder(programId, acc, f[2], Answered(reads, Ok(info))))
       \/ \E e \in ReadErrors :
            Goto(Step("done", loc, Answered(reads, Error(e)), placeOrderFetchFailed(e)))
    /\ UNCHANGED <<programId, op, acc, args, calls, resolved>>

PlaceFetchRouterEndpointReturns ==
    /\ op = "placeMarketOrderCctp"
    /\ pc = "fetchRouterEndpointInfo"
    /\ \/ \E protocol \in Protocols :
            LET f == placeEndpointFetched(loc, protocol) IN
            IF IsThrow(f[1])
            THEN Goto(Step("done", f[2], Answered(reads, Ok(protocol)), Error(f[1][2])))
            ELSE Goto(placeCompose(programId, acc, f[2], Answered(reads, Ok(protocol))))
       \/ \E e \in ReadErrors :
            Goto(Step("done", loc, Answered(reads, Error(e)), Error(e)))
    /\ UNCHANGED <<programId, op, acc, args, calls, resolved>>

-----------------------------------------------------------------------------
(* redeemCctpFillIx and redeemCctpFillAccounts *)

RedeemAccounts ==
    [payer : {Payer},
     vaa : {Key("vaa")},
     routerEndpoint : {Undefined, Key("routerEndpoint")}]

\* the burn message parsed from args.encodedCctpMessage
CctpMessages == [sourceDomain : {0, 3}, nonce : {11}]

\* MessageTransmitterProgram.receiveTokenMessengerMinterMessageAccounts(mint, msg)
receiveTokenMessengerMinterMessageAccounts(mint, msg) ==
    [authority |->
         Pda(<<"message_transmitter_authority", tokenMessengerMinterProgram>>,
             messageTransmitterProgram),
     messageTransmitterConfig |-> Pda(<<"message_transmitter">>, messageTransmitterProgram),
     usedNonces |->
         Pda(<<"used_nonces", msg.sourceDomain, msg.nonce>>, messageTransmitterProgram),
     messageTransmitterEventAuthority |->
         Pda(<<"__event_authority">>, messageTransmitterProgram),
     tokenMessengerMinterProgram |-> tokenMessengerMinterProgram,
     tokenMessenger |-> Pda(<<"token_messenger">>, tokenMessengerMinterProgram),
     remoteTokenMessenger |->
         Pda(<<"remote_token_messenger", msg.sourceDomain>>, tokenMessengerMinterProgram),
     tokenMinter |-> Pda(<<"token_minter">>, tokenMessengerMinterProgram),
     localToken |-> Pda(<<"local_token", mint>>, tokenMessengerMinterProgram),
     tokenPair |-> Pda(<<"token_pair", msg.sourceDomain>>, tokenMessengerMinterProgram),
     custodyToken |-> Pda(<<"custody", mint>>, tokenMessengerMinterProgram),
     tokenMessengerMinterEventAuthority |->
         Pda(<<"__event_authority">>, tokenMessengerMinterProgram),
     messageTransmitterProgram |-> messageTransmitterProgram]

\* lines 575-615: redeemCctpFillAccounts once the VAA account is fetched
redeemCctpFillAccounts(id, fillVaa, msg, chain) ==
    LET matchingEngine == matchingEngineProgram(id) IN
    IF IsThrow(matchingEngine)
    THEN matchingEngine
    ELSE <<"accounts",
           [custodian |-> custodianAddress(id),
            preparedFill |-> preparedFillAddress(id, fillVaa),
            cctpMintRecipient |-> cctpMintRecipientAddress(id),
            routerEndpoint |-> routerEndpointAddress(matchingEngine, chain),
            cctp |-> receiveTokenMessengerMinterMessageAccounts(Mint, msg)]>>

\* mutant: the derived router endpoint replaces the one supplied
redeemRouterEndpoint_AlwaysDerived(supplied, derived) == derived

\* line 652: routerEndpoint ??= derivedRouterEndpoint
redeemRouterEndpoint(supplied, derived) == Nullish(supplied, derived)

\* lines 652-683
redeemCctpFillReturn(id, a, g, l, derived) ==
    Ok(Ix("redeemCctpFill",
          [payer |-> a.payer,
           custodian |-> custodianAddress(id),
           fillVaa |-> a.vaa,
           preparedFill |-> derived.preparedFill,
           preparedCustodyToken |-> preparedCustodyTokenAddress(id, derived.preparedFill),
           usdc |-> Mint,
           routerEndpoint |-> l.routerEndpoint,
           mintRecipient |-> derived.cctpMintRecipient,
           cctp |-> derived.cctp,
           tokenProgram |-> Key("TOKEN_PROGRAM_ID"),
           systemProgram |-> Key("SystemProgram")],
          g))

\* mutant: the VAA is fetched only when the emitter chain is needed
RedeemCctpFillIx_SkipsVaa ==
    /\ Idle
    /\ \E a \in RedeemAccounts, m \in CctpMessages :
        /\ op' = "redeemCctpFill"
        /\ acc' = a
        /\ args' = [encodedCctpMessage |-> m]
        /\ calls' = calls + 1
        /\ IF a.routerEndpoint = Undefined
           THEN Goto(Step("fetchVaa", [routerEndpoint |-> a.routerEndpoint],
                          <<Read("fetchVaa", a.vaa)>>, Pending))
           ELSE LET r == redeemCctpFillAccounts(programId, a.vaa, m, 2)
                    l == [routerEndpoint |-> a.routerEndpoint]
                IN  IF IsThrow(r)
                    THEN Goto(Step("done", l, <<>>, Error(r[2])))
                    ELSE Goto(Step("done", l, <<>>,
                                   redeemCctpFillReturn(programId, a,
                                       [encodedCctpMessage |-> m], l, r[2])))
    /\ UNCHANGED <<programId, resolved>>

RedeemCctpFillIx ==
    /\ Idle
    /\ \E a \in RedeemAccounts, m \in CctpMessages :
        /\ op' = "redeemCctpFill"
        /\ acc' = a
        /\ args' = [encodedCctpMessage |-> m]
        /\ calls' = calls + 1
        \* await VaaAccount.fetch(connection, fillVaa)
        /\ Goto(Step("fetchVaa", [routerEndpoint |-> a.routerEndpoint],
                     <<Read("fetchVaa", a.vaa)>>, Pending))
    /\ UNCHANGED <<programId, resolved>>

VaaFetchReturns ==
    /\ op = "redeemCctpFill"
    /\ pc = "fetchVaa"
    /\ \/ \E chain \in KnownChainIds :
            LET r == redeemCctpFillAccounts(programId, acc.vaa, args.encodedCctpMessage, chain)
                rs == Answered(reads, Ok(Some(chain)))
            IN  IF IsThrow(r)
                THEN Goto(Step("done", loc, rs, Error(r[2])))
                ELSE LET l2 == [loc EXCEPT !.routerEndpoint =
                                        redeemRouterEndpoint(@, r[2].routerEndpoint)]
                     IN  Goto(Step("done", l2, rs,
                                   redeemCctpFillReturn(programId, acc, args, l2, r[2])))
       \/ \E e \in ReadErrors :
            Goto(Step("done", loc, Answered(reads, Error(e)), Error(e)))
    /\ UNCHANGED <<programId, op, acc, args, calls, resolved>>

-----------------------------------------------------------------------------
(* The three network switches, called on their own *)

NetworkMethods == {"upgradeManagerProgram", "matchingEngineProgram", "coreBridgeProgramId"}

NetworkCall(method, id) ==
    CASE method = "upgradeManagerProgram" -> upgradeManagerProgram(id)
      [] method = "matchingEngineProgram" -> matchingEngineProgram(id)
      [] method = "coreBridgeProgramId" -> coreBridgeProgramId(id)

\* a synchronous method: returns its value or throws
ResolveNetwork ==
    /\ Idle
    /\ \E method \in NetworkMethods :
        LET r == NetworkCall(method, programId) IN
        /\ op' = method
        /\ acc' = Null
        /\ args' = Null
        /\ calls' = calls + 1
        /\ Goto(Step("done", NoLoc, <<>>, IF IsThrow(r) THEN Error(r[2]) ELSE Ok(r)))
        /\ resolved' = Append(resolved, <<method, r>>)
    /\ UNCHANGED programId

-----------------------------------------------------------------------------
(* The caller takes the settled result; the program object stays as it is *)

Return ==
    /\ pc = "done"
    /\ op' = "none"
    /\ pc' = "idle"
    /\ acc' = Null
    /\ args' = Null
    /\ loc' = NoLoc
    /\ reads' = <<>>
    /\ result' = Pending
    /\ UNCHANGED <<programId, calls, resolved>>

\* new TokenRouterProgram(connection, programId, mint)
Init ==
    /\ programId \in ProgramIds
    /\ op = "none"
    /\ pc = "idle"
    /\ acc = Null
    /\ args = Null
    /\ loc = NoLoc
    /\ reads = <<>>
    /\ result = Pending
    /\ calls = 0
    /\ resolved = <<>>

Next ==
    \/ PrepareMarketOrderIx
    \/ GetAccountReturns
    \/ ClosePreparedOrderIx
    \/ CloseFetchPreparedOrderReturns
    \/ ConsumePreparedFillIx
    \/ PlaceMarketOrderCctpIx
    \/ PlaceFetchPreparedOrderReturns
    \/ PlaceFetchRouterEndpointReturns
    \/ RedeemCctpFillIx
    \/ VaaFetchReturns
    \/ ResolveNetwork
    \/ Return

Spec == Init /\ [][Next]_vars

-----------------------------------------------------------------------------
(* transferAuthorityAddress as a function of its arguments: it is applied  *)
(* to two argument sets, drawn from DigestArgs, for one prepared order.    *)

Fill(n, b) == [i \in 1..n |-> b]

DigestArgs ==
    [amountIn : {1, 258},
     minAmountOut : {Null, Some(0), Some(100)},
     targetChain : {0, 2},
     redeemer : {Fill(RedeemerLen, 0), Fill(RedeemerLen, 7)},
     redeemerMessage : {Fill(n, b) : n \in 0..MaxMsgLen, b \in {0, 9}}]

InitDigest ==
    /\ programId = Testnet
    /\ op = "transferAuthorityAddress"
    /\ pc = "idle"
    /\ acc = [preparedOrder |-> PreparedOrderKey]
    /\ args \in [a : DigestArgs, b : DigestArgs]
    /\ loc = NoLoc
    /\ reads = <<>>
    /\ result = Pending
    /\ calls = 0
    /\ resolved = <<>>

\* both calls are made: loc keeps the bytes hashed, result the two addresses
TransferAuthorityAddress ==
    /\ op = "transferAuthorityAddress"
    /\ pc = "idle"
    /\ pc' = "done"
    /\ loc' = [a |-> DigestInput(args.a), b |-> DigestInput(args.b)]
    /\ result' = Ok([a |-> transferAuthorityAddress(programId, acc.preparedOrder, args.a),
                     b |-> transferAuthorityAddress(programId, acc.preparedOrder, args.b)])
    /\ UNCHANGED <<programId, op, acc, args, reads, calls, resolved>>

NextDigest == TransferAuthorityAddress

SpecDigest == InitDigest /\ [][NextDigest]_vars

-----------------------------------------------------------------------------
(* Properties *)

Done == pc = "done"
Returned == pc = "done" /\ result[1] = "ok"
Failed == pc = "done" /\ result[1] = "error"

\* the positions in `reads` of the reads of one kind
ReadsOf(kind) == {i \in 1..Len(reads) : reads[i].kind = kind}

InPrepare == op = "prepareMarketOrder"
InClose == op = "closePreparedOrder"
InPlace == op = "placeMarketOrderCctp"

\* C1: prepareMarketOrder, with useTransferAuthority true or omitted and no
\* programTransferAuthority supplied, returns a non-null approve instruction
\* with the prepare instruction; the approve's delegate is the prepare's
\* programTransferAuthority, which is transferAuthorityAddress(preparedOrder,
\* args), and the approved amount is amountIn.  (The call does not return
\* only when the token-account read it had to make was rejected.)
C1_ApproveDelegateIsTransferAuthority ==
    (/\ InPrepare
     /\ Done
     /\ acc.programTransferAuthority = Undefined
     /\ args.useTransferAuthority \in {Undefined, Bool(TRUE)})
    => \/ /\ result[1] = "ok"
          /\ LET approveIx == result[2][1]
                 prepareIx == result[2][2]
             IN  /\ approveIx # Null
                 /\ approveIx[2] = "approve"
                 /\ prepareIx[2] = "prepareMarketOrder"
                 /\ approveIx[3].delegate = prepareIx[3].programTransferAuthority
                 /\ approveIx[3].delegate =
                        Pda(<<"transfer-authority", acc.preparedOrder,
                              Keccak256(DigestInput(args.order))>>, ID(programId))
                 /\ approveIx[4].amount = args.order.amountIn
       \/ /\ result[1] = "error"
          /\ acc.senderTokenAuthority = Undefined
          /\ Len(reads) = 1
          /\ reads[1].answer = result

C1_Witness ==
    /\ InPrepare
    /\ Returned
    /\ acc.programTransferAuthority = Undefined
    /\ args.useTransferAuthority = Undefined
    /\ acc.senderTokenAuthority = Undefined
    /\ result[2][1] # Null
    /\ result[2][1][3].delegate = result[2][2][3].programTransferAuthority

\* C2: prepareMarketOrder, with useTransferAuthority false and no
\* programTransferAuthority supplied, reads no token account, and returns a
\* null approve instruction and a prepare instruction whose
\* programTransferAuthority is null (absent, not an address).
C2_NoAuthorityWhenDisabled ==
    (/\ InPrepare
     /\ acc.programTransferAuthority = Undefined
     /\ args.useTransferAuthority = Bool(FALSE))
    => /\ reads = <<>>
       /\ Returned
       /\ result[2][1] = Null
       /\ result[2][2][3].programTransferAuthority = Null

C2_Witness ==
    /\ InPrepare
    /\ Returned
    /\ acc.programTransferAuthority = Undefined
    /\ args.useTransferAuthority = Bool(FALSE)
    /\ acc.senderTokenAuthority = Undefined
    /\ result[2][2][3].programTransferAuthority = Null

\* C3: placeMarketOrderCctp reads the prepared order if and only if
\* preparedBy or targetChain is not supplied; when that read is rejected the
\* call fails with the order-not-found error, no read follows it and no
\* instruction is returned.
C3_OrderReadIffNeeded ==
    InPlace =>
        /\ (ReadsOf("fetchPreparedOrder") # {})
               <=> (acc.preparedBy = Undefined \/ args.targetChain = Undefined)
        /\ \A i \in ReadsOf("fetchPreparedOrder") :
               /\ i = 1
               /\ reads[i].address = acc.preparedOrder
               /\ reads[i].answer[1] = "error"
                    => /\ Done
                       /\ result = Error(OrderNotFound)
                       /\ Len(reads) = 1

C3_Witness ==
    /\ InPlace
    /\ Done
    /\ acc.preparedBy # Undefined
    /\ args.targetChain = Undefined
    /\ Len(reads) = 1
    /\ reads[1].answer[1] = "error"
    /\ result = Error(OrderNotFound)

\* the prepared order was read and the chain id it stores is not recognised
StoredChainInvalid ==
    \E i \in ReadsOf("fetchPreparedOrder") :
        /\ reads[i].answer[1] = "ok"
        /\ ~(reads[i].answer[2].targetChain \in KnownChainIds)

\* C4: placeMarketOrderCctp, when the prepared order it read stores a
\* targetChain that is not a recognised chain id, fails with the
\* invalid-target-chain error with the router endpoint not derived, the
\* router-endpoint record not read and no instruction returned.
C4_InvalidChainFailsFirst ==
    (InPlace /\ StoredChainInvalid)
    => /\ Done
       /\ result = Error(InvalidTargetChain)
       /\ loc.routerEndpoint = acc.routerEndpoint
       /\ loc.burn = Undefined
       /\ ReadsOf("fetchRouterEndpointInfo") = {}
       /\ Len(reads) = 1

C4_Witness ==
    /\ InPlace
    /\ StoredChainInvalid
    /\ args.targetChain # Undefined
    /\ acc.routerEndpoint = Undefined
    /\ result = Error(InvalidTargetChain)

\* the call failed before it came to resolve the destination domain
FailedBeforeDomain ==
    /\ Failed
    /\ ReadsOf("fetchRouterEndpointInfo") = {}
    /\ result \in {Error(OrderNotFound), Error(InvalidTargetChain), Error(UnsupportedNetwork)}

\* C5: placeMarketOrderCctp uses a destinationDomain the caller supplies
\* unchanged and then never reads the router-endpoint record; otherwise,
\* once it comes to resolve the domain, it reads the record exactly once, at
\* the router-endpoint address, and uses the domain of its cctp variant; a
\* record of another variant fails the call with the invalid-router-endpoint
\* error and no instruction.
C5_DestinationDomain ==
    InPlace =>
        LET er == ReadsOf("fetchRouterEndpointInfo") IN
        IF args.destinationDomain # Undefined
        THEN /\ er = {}
             /\ loc.destinationDomain = args.destinationDomain
             /\ Returned =>
                    result[2][3].remoteTokenMessenger =
                        Pda(<<"remote_token_messenger", args.destinationDomain[2]>>,
                            tokenMessengerMinterProgram)
        ELSE /\ Cardinality(er) <= 1
             /\ (Done /\ ~FailedBeforeDomain) => Cardinality(er) = 1
             /\ pc = "fetchRouterEndpointInfo" => Cardinality(er) = 1
             /\ \A i \in er :
                    /\ i = Len(reads)
                    /\ reads[i].address = loc.routerEndpoint
                    /\ (reads[i].answer[1] = "ok" /\ reads[i].answer[2][1] # "cctp")
                         => (Done /\ result = Error(InvalidRouterEndpoint))
                    /\ (reads[i].answer[1] = "ok" /\ reads[i].answer[2][1] = "cctp")
                         => /\ Returned
                            /\ loc.destinationDomain = Some(reads[i].answer[2][2])
                            /\ result[2][3].remoteTokenMessenger =
                                   Pda(<<"remote_token_messenger", reads[i].answer[2][2]>>,
                                       tokenMessengerMinterProgram)
             /\ Returned => \E i \in er : reads[i].answer[1] = "ok"

C5_Witness ==
    /\ InPlace
    /\ Returned
    /\ args.destinationDomain = Undefined
    /\ Len(reads) = 2
    /\ reads[2].kind = "fetchRouterEndpointInfo"
    /\ reads[2].answer = Ok(<<"cctp", 3>>)
    /\ loc.destinationDomain = Some(3)

\* some read of the call was rejected, or answered with a record that fails
\* the chain check or the variant check
SomeReadFailed == \E i \in 1..Len(reads) : reads[i].answer[1] = "error"
SomeCheckFailed ==
    \/ InPlace /\ StoredChainInvalid
    \/ /\ InPlace
       /\ \E i \in ReadsOf("fetchRouterEndpointInfo") :
              reads[i].answer[1] = "ok" /\ reads[i].answer[2][1] # "cctp"

\* C6: a call is all-or-nothing: it settles with its complete instruction(s)
\* or with an error; when one of its reads was rejected or a chain/variant
\* check failed it settles with an error and no instruction; prepareMarketOrder
\* never returns an approve instruction without the prepare instruction; and
\* nothing is returned while a read is still awaited.
C6_AllOrNothing ==
    /\ ~Done => result = Pending
    /\ Done => result[1] \in {"ok", "error"}
    /\ (SomeReadFailed \/ SomeCheckFailed) => (Done /\ result[1] = "error")
    /\ (Returned /\ op \in {"closePreparedOrder", "consumePreparedFill",
                            "placeMarketOrderCctp", "redeemCctpFill"})
           => (result[2][1] = "ix" /\ result[2][2] = op)
    /\ (Returned /\ InPrepare)
           => /\ result[2][2][1] = "ix"
              /\ result[2][2][2] = "prepareMarketOrder"
              /\ result[2][1] # Null => result[2][1][2] = "approve"
    /\ Returned => \A i \in 1..Len(reads) : reads[i].answer[1] = "ok"

C6_Witness ==
    /\ InPlace
    /\ Failed
    /\ Len(reads) = 2
    /\ reads[1].answer[1] = "ok"
    /\ reads[2].answer = Ok(<<"none">>)

\* the row of each known identity, as the three switches list it
NetworkRow(id) ==
    IF id = Testnet
    THEN [upgradeManagerProgram |->
              <<"program", "ucdP9ktgrXgEUnn6roqD2SfdGMR2JSiWHUKv23oXwxt">>,
          matchingEngineProgram |-> <<"program", "matchingEngineSdk.testnet()">>,
          coreBridgeProgramId |->
              <<"program", "3u8hJUVTA4jH1wYAyUur7FFZVQ8H635K3tSHHF4ssjQ5">>]
    ELSE [upgradeManagerProgram |->
              <<"program", "UpgradeManager11111111111111111111111111111">>,
          matchingEngineProgram |-> <<"program", "matchingEngineSdk.localnet()">>,
          coreBridgeProgramId |->
              <<"program", "worm2ZoG2kUd4vFXhvjh93UUH596ayRfgQ2MgjNMTth">>]

\* C7: network resolution fails closed: for an identity that is not a known
\* one each of the three switches throws the unsupported-network error and
\* yields no program; for a known identity each returns the entry of that
\* identity's own row; and two calls of one switch give the same outcome.
C7_NetworkFailsClosed ==
    /\ \A i \in 1..Len(resolved) :
           LET method == resolved[i][1]
               outcome == resolved[i][2]
           IN  IF programId \in PROGRAM_IDS
               THEN outcome = NetworkRow(programId)[method]
               ELSE outcome = Throw(UnsupportedNetwork)
    /\ \A i, j \in 1..Len(resolved) :
           resolved[i][1] = resolved[j][1] => resolved[i][2] = resolved[j][2]
    /\ (Done /\ op \in NetworkMethods)
           => result = (IF programId \in PROGRAM_IDS
                        THEN Ok(NetworkRow(programId)[op])
                        ELSE Error(UnsupportedNetwork))

C7_Witness ==
    /\ programId = ForeignId
    /\ Len(resolved) = 2
    /\ resolved[1][1] = "coreBridgeProgramId"
    /\ resolved[2][1] = "coreBridgeProgramId"
    /\ result = Error(UnsupportedNetwork)

\* the two argument sets agree on amountIn, on presence and value of
\* minAmountOut, on targetChain, on redeemer and on redeemerMessage
SameOrderParameters(a, b) ==
    /\ a.amountIn = b.amountIn
    /\ a.minAmountOut = b.minAmountOut
    /\ a.targetChain = b.targetChain
    /\ a.redeemer = b.redeemer
    /\ a.redeemerMessage = b.redeemerMessage

\* C8: for one prepared order, the bytes hashed by transferAuthorityAddress,
\* and so the transfer authority, are the same for two OrderParameters if and
\* only if the two agree on amountIn, minAmountOut (presence and value),
\* targetChain, redeemer and redeemerMessage.
C8_DigestInputInjective ==
    Done =>
        /\ (loc.a = loc.b) <=> SameOrderParameters(args.a, args.b)
        /\ (result[2].a = result[2].b) <=> SameOrderParameters(args.a, args.b)

\* the two argument sets differ only in that minAmountOut is absent in a and
\* present in b
DifferInPresenceOnly(a, b) ==
    /\ a.minAmountOut = Null
    /\ b.minAmountOut # Null
    /\ a.amountIn = b.amountIn
    /\ a.targetChain = b.targetChain
    /\ a.redeemer = b.redeemer
    /\ a.redeemerMessage = b.redeemerMessage

\* C9: an absent minAmountOut adds no byte to the bytes hashed and a present
\* one adds exactly 8, so two OrderParameters that differ only in the
\* presence of minAmountOut have different bytes hashed and different
\* transfer authorities.
C9_PresenceChangesDigest ==
    Done =>
        /\ Len(loc.a) = 8 + (IF args.a.minAmountOut = Null THEN 0 ELSE 8) + 2 + 32
                          + Len(args.a.redeemerMessage)
        /\ DifferInPresenceOnly(args.a, args.b)
               => /\ Len(loc.b) = Len(loc.a) + 8
                  /\ loc.a # loc.b
                  /\ result[2].a # result[2].b

C9_Witness ==
    /\ Done
    /\ DifferInPresenceOnly(args.a, args.b)
    /\ args.b.minAmountOut = Some(100)
    /\ result[2].a # result[2].b

CloseFields == {"preparedBy", "orderSender", "refundToken"}

\* C10: closePreparedOrder reads the prepared order exactly when one of
\* preparedBy, orderSender, refundToken is not supplied (and then once); in
\* the instruction every supplied field is the caller's value and every
\* other field is the value stored in the record read.
C10_CloseFallsBackPerField ==
    InClose =>
        /\ (reads # <<>>) <=> (\E f \in CloseFields : acc[f] = Undefined)
        /\ Len(reads) <= 1
        /\ \A i \in 1..Len(reads) :
               reads[i].kind = "fetchPreparedOrder" /\ reads[i].address = acc.preparedOrder
        /\ Returned =>
               \A f \in CloseFields :
                   result[2][3][f] = (IF acc[f] # Undefined
                                      THEN acc[f]
                                      ELSE reads[1].answer[2][f])

C10_Witness ==
    /\ InClose
    /\ Returned
    /\ acc.preparedBy # Undefined
    /\ acc.orderSender = Undefined
    /\ acc.refundToken # Undefined
    /\ result[2][3].preparedBy = acc.preparedBy
    /\ result[2][3].orderSender = reads[1].answer[2].orderSender


InRedeem == op = "redeemCctpFill"

\* the matching-engine program of each known identity (lines 896-908)
MatchingEngineOf(id) ==
    IF id = Testnet
    THEN <<"program", "matchingEngineSdk.testnet()">>
    ELSE <<"program", "matchingEngineSdk.localnet()">>

\* C11: the routerEndpoint account of the instruction redeemCctpFill returns
\* is the routerEndpoint the caller supplied when there is one, and otherwise
\* the matching-engine router-endpoint address of the emitter chain read from
\* the fill VAA.
C11_RedeemRouterEndpoint ==
    (InRedeem /\ Returned)
    => /\ reads[1].kind = "fetchVaa"
       /\ reads[1].answer[1] = "ok"
       /\ result[2][3].routerEndpoint =
              (IF acc.routerEndpoint # Undefined
               THEN acc.routerEndpoint
               ELSE <<"pda", MatchingEngineOf(programId),
                      <<"endpoint", reads[1].answer[2][2]>>>>)

C11_Witness ==
    /\ InRedeem
    /\ Returned
    /\ acc.routerEndpoint = Key("routerEndpoint")
    /\ result[2][3].routerEndpoint = Key("routerEndpoint")
    /\ reads[1].answer = Ok(Some(6))


InConsume == op = "consumePreparedFill"

\* the call returned one instruction, or (prepareMarketOrder) a pair
EmitsIx == Returned /\ (InPrepare \/ InClose \/ InConsume \/ InPlace \/ InRedeem)

RolePresent(v) == v # Undefined /\ v # Null

\* every account role of the instruction but those in `optional` is present;
\* the cctp composite of redeemCctpFill is a group of roles
RolesPresent(ix, optional) ==
    \A role \in DOMAIN ix[3] \ optional :
        IF role = "cctp"
        THEN \A inner \in DOMAIN ix[3].cctp : RolePresent(ix[3].cctp[inner])
        ELSE RolePresent(ix[3][role])

PrepareOptionalRoles == {"sender", "programTransferAuthority"}

\* C12 as stated: in every instruction emitted by any operation, every
\* account role is present and non-null (an unresolved role fails the call
\* instead of being emitted absent or defaulted).
C12_EveryRolePresent ==
    EmitsIx
    => IF InPrepare
       THEN /\ RolesPresent(result[2][2], {})
            /\ result[2][1] # Null => RolesPresent(result[2][1], {})
       ELSE RolesPresent(result[2], {})

\* C12, amended: every account role of every emitted instruction is present
\* and non-null, except the sender and programTransferAuthority roles of
\* prepareMarketOrder.  These two are never undefined; sender is null exactly
\* when the caller left it unset or passed null, programTransferAuthority is
\* null exactly when the caller passed null, or left it unset with
\* useTransferAuthority false.  A prepareMarketOrder call fails only when its
\* token-account read was rejected, never because a role is unset.
C12_RolesPresentButOptional ==
    /\ EmitsIx
       => IF InPrepare
          THEN LET prepareIx == result[2][2] IN
               /\ RolesPresent(prepareIx, PrepareOptionalRoles)
               /\ result[2][1] # Null => RolesPresent(result[2][1], {})
               /\ prepareIx[3].sender # Undefined
               /\ prepareIx[3].programTransferAuthority # Undefined
               /\ prepareIx[3].sender = Null <=> acc.sender \in {Undefined, Null}
               /\ prepareIx[3].programTransferAuthority = Null
                      <=> \/ acc.programTransferAuthority = Null
                          \/ /\ acc.programTransferAuthority = Undefined
                             /\ args.useTransferAuthority = Bool(FALSE)
          ELSE RolesPresent(result[2], {})
    /\ (InPrepare /\ Failed)
       => /\ Len(reads) = 1
          /\ reads[1].kind = "getAccount"
          /\ reads[1].answer[1] = "error"

C12_Witness ==
    /\ InPrepare
    /\ Returned
    /\ acc.sender = Undefined
    /\ acc.programTransferAuthority = Undefined
    /\ args.useTransferAuthority = Bool(FALSE)
    /\ result[2][2][3].sender = Null
    /\ result[2][2][3].programTransferAuthority = Null


\* the positions in `reads` of the reads that were rejected
RejectedReads == {i \in 1..Len(reads) : reads[i].answer[1] = "error"}

\* the prepared-order read of placeMarketOrderCctp
IsPlaceOrderRead(i) == InPlace /\ reads[i].kind = "fetchPreparedOrder"

\* C13 as stated: whenever a ledger read made inside an operation fails, the
\* caller receives the very error of that read, unmodified, in every
\* operation, the prepared-order read of placeMarketOrderCctp included.
C13_ReadErrorUnmodified ==
    \A i \in RejectedReads : Done /\ result = reads[i].answer

\* C13, amended: whenever a ledger read made inside an operation fails, the
\* operation fails; the caller receives the very error of that read,
\* unmodified, except for the prepared-order read of placeMarketOrderCctp,
\* whose error is replaced by the error "Cannot find prepared order".
C13_ReadErrorUnmodifiedButOrder ==
    \A i \in RejectedReads :
        /\ Done
        /\ IF IsPlaceOrderRead(i)
           THEN result = Error("Cannot find prepared order")
           ELSE result = reads[i].answer

C13_Witness ==
    /\ InPlace
    /\ Failed
    /\ Len(reads) = 1
    /\ reads[1].kind = "fetchPreparedOrder"
    /\ reads[1].answer = Error("failed to get info about account")
    /\ result = Error("Cannot find prepared order")


\* C14: no operation retries a read.  Within one call each ledger read (token
\* account, prepared order, router endpoint, VAA) is issued at most once, only
\* the read issued last can be outstanding, and a read that failed is the
\* last read of the call, which has terminated with an error.
C14_NoRetry ==
    /\ \A i, j \in 1..Len(reads) : reads[i].kind = reads[j].kind => i = j
    /\ \A i \in 1..Len(reads) : reads[i].answer = Pending => i = Len(reads) /\ ~Done
    /\ \A i \in RejectedReads : i = Len(reads) /\ Failed

C14_Witness ==
    /\ InPlace
    /\ Failed
    /\ Len(reads) = 2
    /\ reads[1].kind = "fetchPreparedOrder"
    /\ reads[1].answer[1] = "ok"
    /\ reads[2].kind = "fetchRouterEndpointInfo"
    /\ reads[2].answer[1] = "error"


\* the chain the router-endpoint address is derived from: the caller's
\* targetChain, or else the one stored in the prepared order that was read
PlaceChainUsed ==
    IF args.targetChain # Undefined
    THEN args.targetChain[2]
    ELSE reads[1].answer[2].targetChain

\* C15: placeMarketOrderCctp completes every read before the derivation it
\* feeds.  While the prepared-order read is outstanding no router-endpoint
\* address has been derived, no router-endpoint read issued and no burn
\* accounts composed; the router-endpoint read is issued only after the
\* prepared-order read (when there is one) has succeeded, at the address the
\* caller supplied or else the one derived from the resolved targetChain, and
\* while it is outstanding no burn accounts are composed; burn accounts exist
\* only once every read has succeeded and destinationDomain is resolved, and
\* they are keyed by that domain.
C15_ReadsBeforeDerivations ==
    InPlace =>
        LET or == ReadsOf("fetchPreparedOrder")
            er == ReadsOf("fetchRouterEndpointInfo")
        IN  /\ pc = "fetchPreparedOrder"
               => /\ loc.routerEndpoint = acc.routerEndpoint
                  /\ loc.targetChain = args.targetChain
                  /\ er = {}
                  /\ loc.burn = Undefined
            /\ loc.routerEndpoint # acc.routerEndpoint
               => /\ \A j \in or : reads[j].answer[1] = "ok"
                  /\ loc.targetChain = Some(PlaceChainUsed)
                  /\ loc.routerEndpoint =
                         <<"pda", MatchingEngineOf(programId), <<"endpoint", PlaceChainUsed>>>>
            /\ \A i \in er :
                  /\ \A j \in or : j < i /\ reads[j].answer[1] = "ok"
                  /\ reads[i].address = loc.routerEndpoint
                  /\ acc.routerEndpoint # Undefined => reads[i].address = acc.routerEndpoint
                  /\ acc.routerEndpoint = Undefined => loc.routerEndpoint # Undefined
                  /\ reads[i].answer = Pending => loc.burn = Undefined
            /\ loc.burn # Undefined
               => /\ \A i \in 1..Len(reads) : reads[i].answer[1] = "ok"
                  /\ loc.destinationDomain # Undefined
                  /\ loc.destinationDomain =
                         (IF args.destinationDomain # Undefined
                          THEN args.destinationDomain
                          ELSE Some(reads[Len(reads)].answer[2][2]))
                  /\ loc.burn[2].remoteTokenMessenger =
                         <<"pda", tokenMessengerMinterProgram,
                           <<"remote_token_messenger", loc.destinationDomain[2]>>>>

C15_Witness ==
    /\ InPlace
    /\ Returned
    /\ acc.routerEndpoint = Undefined
    /\ args.targetChain = Undefined
    /\ args.destinationDomain = Undefined
    /\ Len(reads) = 2
    /\ reads[1].answer[2].targetChain = 6
    /\ reads[2].address = <<"pda", MatchingEngineOf(programId), <<"endpoint", 6>>>>
    /\ reads[2].answer = Ok(<<"cctp", 3>>)
    /\ loc.burn[2].remoteTokenMessenger =
           <<"pda", tokenMessengerMinterProgram, <<"remote_token_messenger", 3>>>>


\* C16: prepareMarketOrder, when the caller supplies programTransferAuthority
\* (an address or null), passes that value to the prepare instruction
\* unchanged, returns a null approve instruction and reads no token account,
\* whatever useTransferAuthority is (true, false or omitted).
C16_SuppliedAuthorityKept ==
    (InPrepare /\ acc.programTransferAuthority # Undefined)
    => /\ reads = <<>>
       /\ Returned
       /\ result[2][1] = Null
       /\ result[2][2][2] = "prepareMarketOrder"
       /\ result[2][2][3].programTransferAuthority = acc.programTransferAuthority

C16_Witness ==
    /\ InPrepare
    /\ Returned
    /\ acc.programTransferAuthority = Key("programTransferAuthority")
    /\ acc.senderTokenAuthority = Undefined
    /\ args.useTransferAuthority \in {Undefined, Bool(TRUE)}
    /\ reads = <<>>
    /\ result[2][1] = Null
    /\ result[2][2][3].programTransferAuthority = Key("programTransferAuthority")


\* C17: redeemCctpFill reads the fill VAA exactly once on every call, at the
\* address the caller gave, also when the caller supplies routerEndpoint; the
\* call settles only once that read has settled, and a failed VAA read fails
\* the call with no instruction, also when routerEndpoint was supplied.
C17_VaaReadOnce ==
    InRedeem
    => /\ Len(reads) = 1
       /\ reads[1].kind = "fetchVaa"
       /\ reads[1].address = acc.vaa
       /\ pc = "fetchVaa" <=> reads[1].answer = Pending
       /\ Done <=> reads[1].answer # Pending
       /\ reads[1].answer[1] = "error" => Failed /\ result = reads[1].answer
       /\ Returned => reads[1].answer[1] = "ok"

C17_Witness ==
    /\ InRedeem
    /\ acc.routerEndpoint = Key("routerEndpoint")
    /\ Len(reads) = 1
    /\ reads[1].answer = Error("account does not exist")
    /\ Failed

====
